---- MODULE Spec2Model ----
(***************************************************************************)
(* A model of GPy/core/parameter.py: the Param array (index bookkeeping,   *)
(* ties, change propagation) and ParamConcatenation.                       *)
(*                                                                         *)
(* Three specifications share the module's variables:                      *)
(*   SpecIdx  the pure index computations (_expand_index, _indices,        *)
(*            _raveled_index) applied to drawn shapes and index            *)
(*            expressions;                                                 *)
(*   Spec     one-dimensional Params with views, ties and the change       *)
(*            cascade, run step by step on an explicit call stack;         *)
(*   SpecCat  ParamConcatenation over a list of members.                   *)
(***************************************************************************)
EXTENDS Integers, Sequences, FiniteSets, TLC

(***************************************************************************)
(* Bounds of the model.                                                    *)
(***************************************************************************)
\* largest element value drawn for a buffer (values are 0..MaxVal)
MaxVal == 1
\* number of view objects __getitem__ may create in a run of Spec
MaxViews == 1
\* number of tie_to calls in a run of Spec
MaxTies == 2
\* number of value-writing calls (assignment, _set_params) in a run of Spec
MaxWrites == 2
\* number of untie calls in a run of Spec
MaxUnties == 1
\* number of tie_to, untie and writing calls together in a run of Spec
MaxCalls == 3
\* frames a cascade may stack before it is cut off
MaxDepth == 8
\* largest member of a ParamConcatenation has MaxMember elements
MaxMember == 2

Vals == 0..MaxVal

VARIABLES
  \* SpecIdx: a backing shape, two index expressions, the computed offsets
  ishape, e1, e2, r1, r2, iphase,
  \* Spec: the Params of one owner
  build,       \* whether ndarray.__setslice__ exists (numpy < 1.13 on Python 2)
  data,        \* original name -> its backing buffer
  views,       \* view name -> the view object made by __getitem__
  rav,         \* object -> what its _raveled_index() returns or raises
  tlists,      \* list object -> the Params of a _tied_to_ list
  tl,          \* original name -> the list object its _tied_to_ refers to
  tied_to_me,  \* original name -> its _tied_to_me_ dict: listener -> offsets
  fixed,       \* original name -> offsets the owner holds fixed
  stack,       \* the frames of the call in progress, innermost last
  err,         \* the exception the last call ended with, or "none"
  lastOp,      \* the last call made from outside
  fired,       \* objects whose _fire_changed ran during the last call
  notified,    \* whether owner.parameters_changed ran during the last call
  hist,        \* ties made and ties undone so far
  count,       \* calls made so far, by kind
  \* SpecCat: one ParamConcatenation and one call on it
  cparams,     \* the members' values, in member order
  cold,        \* the members' values before the call
  ccall,       \* the call: its name and arguments
  cres,        \* what __getitem__ returned
  clog,        \* the calls the members received, in order
  cphase

idxVars == <<ishape, e1, e2, r1, r2, iphase>>
catVars == <<cparams, cold, ccall, cres, clog, cphase>>
tieVars == <<build, data, views, rav, tlists, tl, tied_to_me, fixed, stack, err, lastOp,
             fired, notified, hist, count>>
vars == <<idxVars, tieVars, catVars>>

(***************************************************************************)
(* Generic helpers.                                                        *)
(***************************************************************************)
Min(a, b) == IF a < b THEN a ELSE b
Max(a, b) == IF a < b THEN b ELSE a

RECURSIVE SeqSum(_)
SeqSum(s) == IF s = <<>> THEN 0 ELSE Head(s) + SeqSum(Tail(s))

RECURSIVE SeqProd(_)
SeqProd(s) == IF s = <<>> THEN 1 ELSE Head(s) * SeqProd(Tail(s))

RECURSIVE Flatten(_)
Flatten(ss) == IF ss = <<>> THEN <<>> ELSE Head(ss) \o Flatten(Tail(ss))

Range(s) == {s[i] : i \in 1..Len(s)}

\* the elements of a set of integers in ascending order (how CPython iterates
\* a set of small ints, and what list(ind) yields at line 248)
RECURSIVE SortedSeq(_)
SortedSeq(S) ==
  IF S = {} THEN <<>>
  ELSE LET m == CHOOSE x \in S : \A y \in S : x <= y
       IN <<m>> \o SortedSeq(S \ {m})

(***************************************************************************)
(* Index expressions.  One component of an index tuple is an integer, a    *)
(* slice (each of start, stop, step is <<>> for None or <<n>>), a list of  *)
(* integers or Ellipsis.                                                   *)
(***************************************************************************)
None == <<>>
Idx(n) == [k |-> "int", i |-> n, a |-> None, b |-> None, c |-> None, l |-> <<>>]
Slice(s, e, st) == [k |-> "slice", i |-> 0, a |-> s, b |-> e, c |-> st, l |-> <<>>]
List(xs) == [k |-> "list", i |-> 0, a |-> None, b |-> None, c |-> None, l |-> xs]
Ell == [k |-> "ell", i |-> 0, a |-> None, b |-> None, c |-> None, l |-> <<>>]
FullSlice == Slice(None, None, None)

\* numpy.arange(start, stop, step), which numpy.r_[start:stop:step] builds
arange(start, stop, step) ==
  LET span == IF step > 0 THEN stop - start ELSE start - stop
      astep == IF step > 0 THEN step ELSE 0 - step
      n == IF span <= 0 THEN 0 ELSE (span + astep - 1) \div astep
  IN [j \in 1..n |-> start + (j - 1) * step]

\* slice.indices(len) of Python: <<start, stop, step>>
slice_indices(sl, len) ==
  LET step == IF sl.c = None THEN 1 ELSE sl.c[1]
      clip(v) == LET w == IF v < 0 THEN v + len ELSE v
                 IN IF w < 0 THEN (IF step < 0 THEN 0 - 1 ELSE 0)
                    ELSE IF w >= len THEN (IF step < 0 THEN len - 1 ELSE len)
                    ELSE w
      start == IF sl.a = None THEN (IF step < 0 THEN len - 1 ELSE 0) ELSE clip(sl.a[1])
      stop == IF sl.b = None THEN (IF step < 0 THEN 0 - 1 ELSE len) ELSE clip(sl.b[1])
  IN <<start, stop, step>>

\* extended_realshape: the row-major strides of the backing shape
extended_realshape(realshape) ==
  [i \in 1..Len(realshape) |-> SeqProd(SubSeq(realshape, i + 1, Len(realshape)))]

\* Param.__getitem__ lines 287-290: the index tuple stored as _current_slice_
getitem_slice(s, ndim) ==
  IF (\A j \in 1..Len(s) : s[j].k # "ell") /\ Len(s) <= ndim
  THEN Append(s, Ell) ELSE s

\* the function f of _expand_index: one axis component a against axis length b
expand_f(a, b) ==
  IF a = FullSlice \/ a.k = "ell" THEN arange(0, b, 1)
  ELSE IF a.k = "slice"
       THEN LET t == slice_indices(a, b) IN arange(t[1], t[2], t[3])
  ELSE IF a.k = "list"
       THEN [j \in 1..Len(a.l) |-> IF a.l[j] < 0 THEN b + a.l[j] ELSE a.l[j]]
  ELSE <<(IF a.i < 0 THEN b + a.i ELSE a.i)>>

\* _expand_index: izip_longest(slice_index[:realndim], realshape,
\* fillvalue=slice(self.size)) mapped through f
expand_index(slice_index, realshape, size) ==
  LET nd == Len(realshape)
      cut == SubSeq(slice_index, 1, Min(nd, Len(slice_index)))
  IN [j \in 1..nd |->
        expand_f(IF j <= Len(cut) THEN cut[j] ELSE Slice(None, <<size>>, None),
                 realshape[j])]

\* itertools.product of a list of lists, last list fastest
RECURSIVE product(_)
product(lists) ==
  IF lists = <<>> THEN << <<>> >>
  ELSE LET rest == product(Tail(lists))
       IN Flatten([i \in 1..Len(Head(lists)) |->
                     [j \in 1..Len(rest) |-> <<Head(lists)[i]>> \o rest[j]]])

Ok(v) == [ok |-> TRUE, err |-> "none", v |-> v]
Err(e) == [ok |-> FALSE, err |-> e, v |-> <<>>]

\* the test of lines 381-382: every non-Ellipsis component is a list, all of
\* one length
indices_shortcut(clean) ==
  /\ \A j \in 1..Len(clean) : clean[j].k = "list"
  /\ Cardinality({Len(clean[j].l) : j \in 1..Len(clean)}) <= 1

\* _indices: the coordinates (one tuple per element) of the current slice
indices(slice_index, realshape, size) ==
  LET nd == Len(realshape)
      clean == SelectSeq(slice_index, LAMBDA s : s.k # "ell")
  IN IF indices_shortcut(clean)
     THEN IF clean = <<>> THEN Err("IndexError")              \* clean_curr_slice[0]
          ELSE IF Len(clean) # nd THEN Err("ValueError")      \* tuple against dtype
          ELSE Ok([e \in 1..Len(clean[1].l) |-> [j \in 1..nd |-> clean[j].l[e]]])
     ELSE Ok(product(expand_index(slice_index, realshape, size)))

\* _raveled_index: sum(extended_realshape * x) over the rows of _indices
raveled_index(slice_index, realshape, size) ==
  LET ind == indices(slice_index, realshape, size)
      st == extended_realshape(realshape)
  IN IF ~ind.ok THEN ind
     ELSE Ok([e \in 1..Len(ind.v) |->
                SeqSum([j \in 1..Len(realshape) |-> st[j] * ind.v[e][j]])])

(***************************************************************************)
(* numpy.ndarray.__getitem__ (called at line 291): the row-major offsets,  *)
(* in the backing buffer of the given shape, of the elements an index      *)
(* tuple selects, in the order of the result's elements.  An Ellipsis      *)
(* stands for as many full slices as the tuple lacks; an integer or a list *)
(* entry outside -b..b-1 is an IndexError; one list among slices and       *)
(* integers combines as a product, tuples of lists and integers only pair  *)
(* the lists element by element.                                           *)
(***************************************************************************)
numpy_expand_ellipsis(s, nd) ==
  LET m == Len(SelectSeq(s, LAMBDA c : c.k # "ell"))
      fill == [j \in 1..(nd - m) |-> FullSlice]
      RECURSIVE go(_)
      go(t) == IF t = <<>> THEN <<>>
               ELSE IF Head(t).k = "ell" THEN fill \o Tail(t)
               ELSE <<Head(t)>> \o go(Tail(t))
      e == go(s)
  IN e \o [j \in 1..(nd - Len(e)) |-> FullSlice]

numpy_axis(c, b) ==
  IF c.k = "slice" THEN LET t == slice_indices(c, b) IN arange(t[1], t[2], t[3])
  ELSE IF c.k = "list" THEN [j \in 1..Len(c.l) |-> IF c.l[j] < 0 THEN b + c.l[j] ELSE c.l[j]]
  ELSE <<(IF c.i < 0 THEN b + c.i ELSE c.i)>>

numpy_getitem(shape, s) ==
  LET nd == Len(shape)
      m == Len(SelectSeq(s, LAMBDA c : c.k # "ell"))
      nell == Len(SelectSeq(s, LAMBDA c : c.k = "ell"))
      full == numpy_expand_ellipsis(s, nd)
      axes == [j \in 1..nd |-> numpy_axis(full[j], shape[j])]
      lists == {j \in 1..nd : full[j].k = "list"}
      st == extended_realshape(shape)
      ravel(coords) == [e \in 1..Len(coords) |->
                          SeqSum([j \in 1..nd |-> st[j] * coords[e][j]])]
  IN IF m > nd \/ nell > 1 THEN Err("IndexError")
     ELSE IF \E j \in 1..nd : full[j].k \in {"int", "list"}
                 /\ \E x \in Range(axes[j]) : x < 0 \/ x >= shape[j]
          THEN Err("IndexError")
     ELSE IF Cardinality(lists) <= 1 THEN Ok(ravel(product(axes)))
     ELSE IF (\A j \in 1..nd : full[j].k \in {"int", "list"})
             /\ Cardinality({Len(axes[j]) : j \in lists}) = 1
          THEN LET n == Len(axes[CHOOSE j \in lists : TRUE])
               IN Ok(ravel([e \in 1..n |->
                       [j \in 1..nd |-> IF j \in lists THEN axes[j][e] ELSE axes[j][1]]]))
     ELSE Err("unsupported")

\* the view self[s] of an original Param of the given shape: the tuple kept
\* as _current_slice_, the elements it denotes and its size
view_of(shape, s) ==
  LET cs == getitem_slice(s, Len(shape))
      d == numpy_getitem(shape, cs)
  IN [cs |-> cs, ok |-> d.ok, denotes |-> d.v, size |-> Len(d.v)]

\* view._raveled_index() of the view self[s]
view_raveled(shape, s) ==
  LET w == view_of(shape, s) IN raveled_index(w.cs, shape, w.size)

\* the variables of Spec while another specification runs
TieIdle ==
  /\ build = FALSE /\ data = <<>> /\ views = <<>> /\ rav = <<>> /\ tlists = <<>> /\ tl = <<>>
  /\ tied_to_me = <<>> /\ fixed = <<>> /\ stack = <<>> /\ err = "none"
  /\ lastOp = <<>> /\ fired = {} /\ notified = FALSE /\ hist = <<>> /\ count = <<>>

\* the variables of SpecCat while another specification runs
CatIdle ==
  /\ cparams = <<>> /\ cold = <<>> /\ ccall = <<>> /\ cres = <<>> /\ clog = <<>>
  /\ cphase = "idle"

(***************************************************************************)
(* SpecIdx: draw a backing shape and two index expressions that denote the *)
(* same elements, then compute the raveled offsets of both views.          *)
(***************************************************************************)
IdxShapes == {<<3>>, <<2, 2>>, <<2, 2, 2>>}

\* components tried on an axis of length b
AxisComps(b) ==
  {FullSlice, Slice(<<0>>, <<1>>, None), Slice(<<0 - 1>>, None, None),
   Idx(0), Idx(0 - 1), Idx(b - 1),
   List(<<0>>), List(<<b - 1>>), List(<<0 - 1>>), List(<<0, 1>>)}

IdxExprs(shape) ==
  LET nd == Len(shape)
      C == AxisComps(shape[1])
      tuples == UNION {[1..n -> C] : n \in 1..Min(nd, 2)}
  IN tuples \cup {<<Ell>>} \cup {<<Ell, c>> : c \in {Idx(0), Idx(0 - 1)}}
            \cup {<<c, Ell>> : c \in {Idx(0), Slice(<<0>>, <<1>>, None)}}
            \cup (IF nd = 3 THEN {<<FullSlice, FullSlice, c>> : c \in {Idx(0), Idx(0 - 1)}}
                  ELSE {})

IdxInit ==
  /\ ishape \in IdxShapes
  /\ e1 \in IdxExprs(ishape)
  /\ e2 \in IdxExprs(ishape)
  /\ LET a == view_of(ishape, e1)
         b == view_of(ishape, e2)
     IN a.ok /\ b.ok /\ a.size > 0 /\ a.denotes = b.denotes
  /\ r1 = Err("pending")
  /\ r2 = Err("pending")
  /\ iphase = "drawn"
  /\ TieIdle /\ CatIdle

RavelBoth ==
  /\ iphase = "drawn"
  /\ r1' = view_raveled(ishape, e1)
  /\ r2' = view_raveled(ishape, e2)
  /\ iphase' = "raveled"
  /\ UNCHANGED <<ishape, e1, e2>>
  /\ UNCHANGED <<tieVars, catVars>>

IdxNext == RavelBoth
SpecIdx == IdxInit /\ [][IdxNext]_vars

\* C3: views of one original that denote the same elements get the same
\* raveled offsets, and these are the row-major offsets of the elements
C3_RavelRepresentationIndependent ==
  iphase = "raveled" =>
     /\ r1.ok /\ r2.ok
     /\ r1.v = r2.v
     /\ r1.v = view_of(ishape, e1).denotes

(***************************************************************************)
(* SpecNest: draw a backing shape, an index expression e1 on the original  *)
(* P and an index expression e2 on the view V = P[e1], then make           *)
(* W = V[e2] and compute W's raveled offsets.                              *)
(***************************************************************************)
\* the shape of the array numpy.ndarray.__getitem__ returns for an index
\* tuple with at most one list: an integer drops its axis, a slice or the
\* list keeps an axis of its length
numpy_result_shape(shape, s) ==
  LET nd == Len(shape)
      full == numpy_expand_ellipsis(s, nd)
      RECURSIVE go(_)
      go(j) == IF j > nd THEN <<>>
               ELSE (IF full[j].k = "int" THEN <<>>
                     ELSE <<Len(numpy_axis(full[j], shape[j]))>>) \o go(j + 1)
  IN go(1)

\* the view V = P[e1] of an original of the given shape, v being what
\* view_of gives for it, with the shape numpy gives V
outer_view(shape, v) ==
  [ok |-> v.ok, realshape |-> shape, cs |-> v.cs, denotes |-> v.denotes,
   size |-> v.size,
   vshape |-> IF v.ok THEN numpy_result_shape(shape, v.cs) ELSE <<>>]

\* the view W = V[e2] of the view V (lines 286-294 run on V), w being what
\* numpy's indexing of an array of V's shape gives: _realshape_ is inherited
\* from V, which has it from P (line 67); _current_slice_ is the tuple given
\* to V (line 292), completed against V's ndim (line 289); the elements W
\* denotes are those of V that numpy selects
nested_view(V, w) ==
  [ok |-> w.ok, realshape |-> V.realshape, cs |-> w.cs,
   denotes |-> IF w.ok THEN [j \in 1..w.size |-> V.denotes[w.denotes[j] + 1]]
               ELSE <<>>,
   size |-> w.size, vshape |-> <<>>]

NestShapes == {<<3>>, <<2, 2>>, <<2, 2, 2>>}
\* index expressions tried on the original
NestOuter(shape) ==
  {<<FullSlice>>, <<Slice(<<1>>, None, None)>>, <<Slice(<<0>>, <<2>>, None)>>,
   <<List(<<0, 1>>)>>, <<List(<<1>>)>>}
  \cup (IF Len(shape) > 1 THEN {<<Idx(1)>>, <<FullSlice, Idx(1)>>} ELSE {})
\* index expressions tried on the view
NestInner ==
  {<<Idx(0)>>, <<Idx(1)>>, <<Idx(0 - 1)>>, <<FullSlice>>,
   <<Slice(<<1>>, None, None)>>, <<Slice(<<0>>, <<1>>, None)>>}

NestInit ==
  /\ ishape \in NestShapes
  /\ e1 \in NestOuter(ishape)
  /\ e2 \in NestInner
  /\ r1 = Err("pending")
  /\ r2 = Err("pending")
  /\ iphase = "drawn"
  /\ TieIdle /\ CatIdle

\* V = P[e1]
MakeOuter ==
  /\ iphase = "drawn"
  /\ r1' = outer_view(ishape, view_of(ishape, e1))
  /\ iphase' = "outer"
  /\ UNCHANGED <<ishape, e1, e2, r2>>
  /\ UNCHANGED <<tieVars, catVars>>

\* W = V[e2], for a V that is no 0-d array
MakeNested ==
  /\ iphase = "outer" /\ r1.ok /\ r1.vshape # <<>>
  /\ r1' = nested_view(r1, view_of(r1.vshape, e2))
  /\ iphase' = "nested"
  /\ UNCHANGED <<ishape, e1, e2, r2>>
  /\ UNCHANGED <<tieVars, catVars>>

\* W._raveled_index()
RavelNested ==
  /\ iphase = "nested" /\ r1.ok /\ r1.size > 0
  /\ r2' = raveled_index(r1.cs, r1.realshape, r1.size)
  /\ iphase' = "nest_raveled"
  /\ UNCHANGED <<ishape, e1, e2, r1>>
  /\ UNCHANGED <<tieVars, catVars>>

NestNext == MakeOuter \/ MakeNested \/ RavelNested
SpecNest == NestInit /\ [][NestNext]_vars

\* C11: a view W = P[e1][e2] of a view keeps P's backing shape, and W's
\* raveled offsets are the offsets in P's buffer of the elements W denotes
C11_NestedViewAbsoluteOffsets ==
  iphase = "nest_raveled" =>
     /\ r1.realshape = ishape
     /\ r2.ok
     /\ r2.v = r1.denotes

(***************************************************************************)
(* The index arithmetic of ParamConcatenation, on members given as the     *)
(* sequences of their values.                                              *)
(***************************************************************************)
\* ParamConcatenation.__init__ (lines 428-431)
param_sizes(params) == [i \in 1..Len(params) |-> Len(params[i])]
startstops(params) ==
  [i \in 1..(Len(params) + 1) |-> SeqSum(SubSeq(param_sizes(params), 1, i - 1))]
\* _param_slices: member i is slice(start, stop), kept as <<start, stop>>
param_slices(params) ==
  [i \in 1..Len(params) |-> <<startstops(params)[i], startstops(params)[i + 1]>>]

\* ind = numpy.zeros(sum(sizes), dtype=bool); ind[s] = True (lines 436, 441)
cat_ind(params, s) ==
  LET n == SeqSum(param_sizes(params))
      t == slice_indices(s, n)
      pos == Range(arange(t[1], t[2], t[3]))
  IN [i \in 1..n |-> (i - 1) \in pos]

\* a[ps] for the slice ps = <<start, stop>>
at_slice(a, ps) == SubSeq(a, ps[1] + 1, ps[2])

\* a[m] for a boolean mask m: the elements where m is True, in order
RECURSIVE masked(_, _)
masked(a, m) ==
  IF a = <<>> THEN <<>>
  ELSE (IF Head(m) THEN <<Head(a)>> ELSE <<>>) \o masked(Tail(a), Tail(m))

\* the test of line 437, numpy.any(p.flat[ind[ps]]): some selected value of
\* the member is not zero
member_test(p, m) == \E j \in 1..Len(p) : m[j] /\ p[j] # 0

\* ParamConcatenation.__getitem__ (lines 435-439): `wrapped` tells whether a
\* ParamConcatenation is returned, `items` are the selections it holds (the
\* one member selection returned as it is when there is exactly one)
cat_getitem(params, s) ==
  LET ind == cat_ind(params, s)
      ps == param_slices(params)
      RECURSIVE pick(_)
      pick(i) ==
        IF i > Len(params) THEN <<>>
        ELSE (IF member_test(params[i], at_slice(ind, ps[i]))
              THEN <<masked(params[i], at_slice(ind, ps[i]))>> ELSE <<>>)
             \o pick(i + 1)
      items == pick(1)
  IN [wrapped |-> Len(items) # 1, items |-> items]

\* numpy.place(arr, mask, vals): the n-th True position of the mask takes the
\* n-th element of vals (vals repeated when it is shorter)
numpy_place(arr, m, vals) ==
  [i \in 1..Len(arr) |->
     IF m[i]
     THEN vals[((Len(masked(SubSeq(arr, 1, i), SubSeq(m, 1, i))) - 1) % Len(vals)) + 1]
     ELSE arr[i]]

\* ParamConcatenation._vals (lines 444-445)
cat_vals(params) == Flatten(params)

\* ParamConcatenation.__setitem__ (lines 440-443) with a scalar val: the
\* members after the call
cat_setitem(params, s, val) ==
  LET ind == cat_ind(params, s)
      ps == param_slices(params)
      old == cat_vals(params)
      vals == [i \in 1..Len(old) |-> IF ind[i] THEN val ELSE old[i]]
  IN [i \in 1..Len(params) |->
        numpy_place(params[i], at_slice(ind, ps[i]), at_slice(vals, ps[i]))]

(***************************************************************************)
(* Spec: the Params of one owner.  Two originals, p of two elements and q  *)
(* of one, attached to the owner under the slots "p" and "q"; views are    *)
(* made by __getitem__ and named in order of creation.                     *)
(***************************************************************************)
Origs == {"p", "q"}
OrigShape(o) == IF o = "p" THEN <<2>> ELSE <<1>>
ViewNames == <<"v1", "v2", "v3", "v4">>
FreshLists == <<"l1", "l2", "l3", "l4">>
\* an argument of tie_to that is no Param
NotAParam == "float"

\* the variables of SpecIdx while another specification runs
IdxIdle ==
  /\ ishape = <<>> /\ e1 = <<>> /\ e2 = <<>> /\ r1 = <<>> /\ r2 = <<>>
  /\ iphase = "idle"

IsOrig(x) == x \in Origs
Objs == Origs \cup DOMAIN views

\* _parent_index_: the owner's slot, which a view inherits (line 63)
parent_index(x) == IF IsOrig(x) THEN x ELSE views[x].orig
\* owner._get_original(x): the Param the owner holds under x's slot
get_original(x) == parent_index(x)
\* _realshape_ (lines 49, 67)
realshape(x) == OrigShape(parent_index(x))
\* _current_slice_ (lines 48, 61, 292)
orig_slice(o) == <<Slice(None, <<OrigShape(o)[1]>>, None)>>
current_slice(x) == IF IsOrig(x) THEN orig_slice(x) ELSE views[x].cs
\* _original_ (lines 55, 70, 292)
is_original(x) == IF IsOrig(x) THEN TRUE ELSE views[x].original
\* the offsets in the backing buffer of the elements x denotes: all of them
\* for an original, those numpy's indexing selected for a view
denotes(x) ==
  IF IsOrig(x) THEN [j \in 1..OrigShape(x)[1] |-> j - 1] ELSE views[x].denotes
size(x) == Len(denotes(x))
\* whether x has shape (), as the result of an all-integer index has
zero_d(x) == IF IsOrig(x) THEN FALSE ELSE views[x].zero_d
\* whether x holds a buffer of its own (the result of a list index is a copy)
is_copy(x) == IF IsOrig(x) THEN FALSE ELSE views[x].fancy
\* x._raveled_index(): a function of _current_slice_, _realshape_ and the
\* size, none of which changes once x is made, so it is computed when x is
\* made and kept in rav
raveled(x) == rav[x]

\* the elements of the backing buffer that x denotes
backing_values(x) ==
  [j \in 1..size(x) |-> data[parent_index(x)][denotes(x)[j] + 1]]
\* the elements numpy reads as self: a copy reads its own buffer
own_values(x) == IF is_copy(x) THEN views[x].buf ELSE backing_values(x)
\* the elements of self.base (line 248): the backing buffer, or for a copy the
\* buffer of the copy
base_values(x) == IF is_copy(x) THEN views[x].buf ELSE data[parent_index(x)]
\* the object self.base names (line 292): the array made at line 43 for an
\* original, the indexed Param for a view of it, the fresh copy for a list
\* index; numpy sets a view's base to the array it indexes and moves on to
\* that array's own base only while it is again a Param
base(x) == IF IsOrig(x) THEN (IF x = "p" THEN "ndarray_p" ELSE "ndarray_q")
           ELSE views[x].base
new_base(self, name, fancy) ==
  IF fancy THEN (IF name = "v1" THEN "copy_v1" ELSE IF name = "v2" THEN "copy_v2"
                 ELSE IF name = "v3" THEN "copy_v3" ELSE "copy_v4")
  ELSE IF IsOrig(self) THEN self
  ELSE IF base(self) \in Objs THEN base(self) ELSE self

\* numpy broadcasting of a source of n elements (shape (n,), or () with n = 1)
\* to a target of m elements; a target of shape () takes one element
can_assign(n, m, target0d) == n = 1 \/ (~target0d /\ n = m)
bcast(src, m) == [j \in 1..m |-> IF Len(src) = 1 THEN src[1] ELSE src[j]]
\* numpy.all(a == b): shapes that do not broadcast compare unequal
all_eq(a, b) ==
  LET m == Max(Len(a), Len(b))
  IN /\ Len(a) = Len(b) \/ Len(a) = 1 \/ Len(b) = 1
     /\ \A j \in 1..m : bcast(a, m)[j] = bcast(b, m)[j]

\* buf with vals written at the 0-based offsets offs, in order
RECURSIVE write_at(_, _, _)
write_at(buf, offs, vals) ==
  IF offs = <<>> THEN buf
  ELSE write_at([buf EXCEPT ![Head(offs) + 1] = Head(vals)], Tail(offs), Tail(vals))

\* val[ind] for a list ind: an entry outside -n..n-1 is an IndexError
take(buf, ind) ==
  IF \E j \in 1..Len(ind) : ind[j] >= Len(buf) \/ ind[j] < 0 - Len(buf)
  THEN Err("IndexError")
  ELSE Ok([j \in 1..Len(ind) |->
             buf[(IF ind[j] < 0 THEN ind[j] + Len(buf) ELSE ind[j]) + 1]])

\* numpy.ndarray.__setitem__ on x (line 298) at the 0-based positions sel of
\* x's own elements: the new <<data, views>>.  An original and a slice of it
\* share the backing buffer; a copy has its own.
raw_write(x, sel, vals) ==
  IF is_copy(x)
  THEN <<data, [views EXCEPT ![x].buf = write_at(@, sel, vals)]>>
  ELSE <<[data EXCEPT ![parent_index(x)] =
            write_at(@, [j \in 1..Len(sel) |-> denotes(x)[sel[j] + 1]], vals)],
         views>>

all_positions(x) == [j \in 1..size(x) |-> j - 1]

Frame(f, obj, todo, param) == [f |-> f, obj |-> obj, todo |-> todo, param |-> param]
Top == stack[Len(stack)]
Pop == SubSeq(stack, 1, Len(stack) - 1)
Op(op, obj, arg) == [op |-> op, obj |-> obj, arg |-> arg]

\* the _tied_to_ list x refers to (lines 54, 66)
tied_list(x) == IF IsOrig(x) THEN tl[x] ELSE views[x].tl

OrigList(o) == IF o = "p" THEN "lp" ELSE "lq"

TieInit ==
  /\ build \in BOOLEAN
  /\ data = [o \in Origs |-> [j \in 1..OrigShape(o)[1] |-> 0]]
  /\ views = <<>>
  /\ rav = [o \in Origs |-> raveled_index(orig_slice(o), OrigShape(o), OrigShape(o)[1])]
  /\ tlists = [l \in {OrigList(o) : o \in Origs} |-> <<>>]
  /\ tl = [o \in Origs |-> OrigList(o)]
  /\ tied_to_me = [o \in Origs |-> <<>>]
  /\ fixed = [o \in Origs |-> {}]
  /\ stack = <<>>
  /\ err = "none"
  /\ lastOp = Op("new", "", "")
  /\ fired = {}
  /\ notified = FALSE
  /\ hist = [tied |-> {}, untied |-> {}]
  /\ count = [ties |-> 0, writes |-> 0, unties |-> 0, calls |-> 0]

\* the index expressions tried on an original
ViewExprs(o) ==
  IF o = "p" THEN {Idx(1), List(<<0>>), Ell} ELSE {}

\* Param.__getitem__ on an original: a new view object
GetItem(o, e) ==
  /\ stack = <<>>
  /\ Cardinality(DOMAIN views) < MaxViews
  /\ LET name == ViewNames[Cardinality(DOMAIN views) + 1]
         w == view_of(OrigShape(o), <<e>>)
         fancy == e.k = "list"
         nb == new_base(o, name, fancy)
     IN /\ w.ok
        /\ views' = views @@ (name :>
             [orig |-> o, cs |-> w.cs, fancy |-> fancy, zero_d |-> e.k = "int",
              buf |-> IF fancy THEN [j \in 1..w.size |-> data[o][w.denotes[j] + 1]]
                      ELSE <<>>,
              base |-> nb, original |-> (base(o) = nb), tl |-> tl[o],
              denotes |-> w.denotes])
        /\ rav' = rav @@ (name :> raveled_index(w.cs, OrigShape(o), w.size))
        /\ lastOp' = Op("getitem", name, o)
  /\ err' = "none" /\ fired' = {} /\ notified' = FALSE
  /\ UNCHANGED <<build, data, tlists, tl, tied_to_me, fixed, stack, hist, count>>

\* an exception leaves every frame of the call in progress
Raise(e) == err' = e /\ stack' = <<>>

\* the value write of tie_to (lines 223-226) and of _on_change (lines 259-262):
\* an object marked original is written through self[:] = v, which runs
\* Param.__setitem__ only where ndarray defines no __setslice__; any other
\* object through the original's __setitem__ at the object's _current_slice_.
\* `below` are the frames that stay under the write.
routed_write(self, v, below) ==
  LET W == IF is_original(self) THEN self ELSE get_original(self)
      sel == IF is_original(self) THEN all_positions(self) ELSE denotes(self)
      t0d == IF is_original(self) THEN FALSE ELSE zero_d(self)
      hooked == ~is_original(self) \/ ~build
  IN IF ~can_assign(Len(v), Len(sel), t0d)
     THEN Raise("ValueError") /\ UNCHANGED <<data, views>>
     ELSE LET w == raw_write(W, sel, bcast(v, Len(sel)))
          IN /\ data' = w[1]
             /\ views' = w[2]
             /\ err' = "none"
             /\ stack' = below \o (IF hooked THEN <<Frame("setitem", W, {}, "")>>
                                   ELSE <<>>)

\* Param.tie_to up to the value write (lines 221-228)
TieTo(A, B) ==
  /\ stack = <<>>
  /\ count.ties < MaxTies /\ count.calls < MaxCalls
  /\ count' = [count EXCEPT !.ties = @ + 1, !.calls = @ + 1]
  /\ lastOp' = Op("tie_to", A, B) /\ fired' = {} /\ notified' = FALSE
  /\ IF B = NotAParam
     THEN err' = "AssertionError" /\ UNCHANGED <<data, views, stack>>
     ELSE routed_write(A, own_values(B), <<Frame("tie_to", A, {}, B)>>)
  /\ UNCHANGED <<build, rav, tlists, tl, tied_to_me, fixed, hist>>

\* owner._set_fixed(x): the owner marks x's offsets fixed
set_fixed(x) == [fixed EXCEPT ![parent_index(x)] = @ \cup Range(raveled(x).v)]
\* owner._set_unfixed(x)
set_unfixed(x) == [fixed EXCEPT ![parent_index(x)] = @ \ Range(raveled(x).v)]

\* a faulty variant of listener_offsets: the offsets of the listener itself
listener_offsets_of_listener(self, listener) == Range(raveled(listener).v)
\* the offsets _add_tie_listener records (line 250): self._raveled_index(),
\* self being the Param tied to
listener_offsets(self, listener) == Range(raveled(self).v)

\* _add_tie_listener (lines 249-250): the new tied_to_me
add_tie_listener(self, listener) ==
  LET d == tied_to_me[parent_index(self)]
      old == IF listener \in DOMAIN d THEN d[listener] ELSE {}
  IN [tied_to_me EXCEPT ![parent_index(self)] =
        (listener :> (old \cup listener_offsets(self, listener))) @@ d]

\* Param.tie_to after the value write (lines 230-232)
TieRegister ==
  /\ stack # <<>> /\ Top.f = "tie_to"
  /\ LET A == Top.obj
         B == Top.param
     IN /\ tlists' = [tlists EXCEPT ![tl[get_original(A)]] = Append(@, B)]
        /\ IF ~raveled(B).ok
           THEN err' = raveled(B).err /\ UNCHANGED <<tied_to_me, fixed, hist>>
           ELSE /\ tied_to_me' = add_tie_listener(B, A)
                /\ IF ~raveled(A).ok
                   THEN err' = raveled(A).err /\ UNCHANGED <<fixed, hist>>
                   ELSE /\ fixed' = set_fixed(A)
                        /\ err' = "none"
                        /\ hist' = [tied |-> hist.tied \cup {<<A, B>>},
                                    untied |-> hist.untied \ {<<A, B>>}]
  /\ stack' = <<>>
  /\ UNCHANGED <<build, rav, data, views, tl, lastOp, fired, notified, count>>

\* the index expressions tried in an assignment to x: x[...] = v and x[0] = v
AssignExprs(x) ==
  {Ell} \cup (IF ~zero_d(x) /\ size(x) > 1 THEN {Idx(0)} ELSE {})

\* Param.__setitem__ called from outside, up to the raw write (line 298)
Assign(x, e, v) ==
  /\ stack = <<>>
  /\ count.writes < MaxWrites /\ count.calls < MaxCalls
  /\ count' = [count EXCEPT !.writes = @ + 1, !.calls = @ + 1]
  /\ LET sel == IF e.k = "int" THEN <<e.i>> ELSE all_positions(x)
         w == raw_write(x, sel, [j \in 1..Len(sel) |-> v])
     IN data' = w[1] /\ views' = w[2]
  /\ stack' = <<Frame("setitem", x, {}, "")>>
  /\ lastOp' = Op("assign", x, data) /\ fired' = {} /\ notified' = FALSE
  /\ err' = "none"
  /\ UNCHANGED <<build, rav, tlists, tl, tied_to_me, fixed, hist>>

\* Param._set_params (lines 103-104): self.flat = param
SetParams(x, v) ==
  /\ stack = <<>>
  /\ count.writes < MaxWrites /\ count.calls < MaxCalls
  /\ count' = [count EXCEPT !.writes = @ + 1, !.calls = @ + 1]
  /\ LET w == raw_write(x, all_positions(x), [j \in 1..size(x) |-> v])
     IN data' = w[1] /\ views' = w[2]
  /\ lastOp' = Op("_set_params", x, "") /\ fired' = {} /\ notified' = FALSE
  /\ err' = "none"
  /\ UNCHANGED <<build, rav, tlists, tl, tied_to_me, fixed, stack, hist>>

\* ParamConcatenation([x])[:] = v (lines 440-443): numpy.place writes the
\* member x itself
CatPlace(x, v) ==
  /\ stack = <<>> /\ ~zero_d(x)
  /\ count.writes < MaxWrites /\ count.calls < MaxCalls
  /\ count' = [count EXCEPT !.writes = @ + 1, !.calls = @ + 1]
  /\ LET w == raw_write(x, all_positions(x),
                        cat_setitem(<<own_values(x)>>, FullSlice, v)[1])
     IN data' = w[1] /\ views' = w[2]
  /\ lastOp' = Op("cat_setitem", x, "") /\ fired' = {} /\ notified' = FALSE
  /\ err' = "none"
  /\ UNCHANGED <<build, rav, tlists, tl, tied_to_me, fixed, stack, hist>>

\* Param.__setitem__ line 299: self._fire_changed()
SetitemFire ==
  /\ stack # <<>> /\ Top.f = "setitem"
  /\ stack' = Pop \o <<Frame("notify", Top.obj, {}, ""),
                       Frame("fire", Top.obj,
                             DOMAIN tied_to_me[parent_index(Top.obj)], "")>>
  /\ fired' = fired \cup {Top.obj}
  /\ UNCHANGED <<build, rav, data, views, tlists, tl, tied_to_me, fixed, err, lastOp,
                 notified, hist, count>>

\* Param.__setitem__ line 300: self._parent_.parameters_changed()
SetitemNotify ==
  /\ stack # <<>> /\ Top.f = "notify"
  /\ notified' = TRUE
  /\ stack' = Pop
  /\ UNCHANGED <<build, rav, data, views, tlists, tl, tied_to_me, fixed, err, lastOp,
                 fired, hist, count>>

\* the guard of _on_change (line 258): numpy.all(self == val[ind])
on_change_equal(self, v) == all_eq(own_values(self), v)

\* Param._on_change (lines 257-263) called with v = val[ind]; `rest` is the
\* caller's stack
on_change(self, v, rest) ==
  IF on_change_equal(self, v)
  THEN stack' = rest /\ UNCHANGED <<data, views, err>>
  ELSE routed_write(self, v, rest \o <<Frame("on_change", self, {}, "")>>)

\* Param._fire_changed (lines 246-248): the next item of the dict
FireNext(t) ==
  /\ stack # <<>> /\ Top.f = "fire" /\ t \in Top.todo
  /\ Len(stack) < MaxDepth
  /\ LET ind == SortedSeq(tied_to_me[parent_index(Top.obj)][t])
         val == take(base_values(Top.obj), ind)
         rest == Pop \o <<[Top EXCEPT !.todo = @ \ {t}]>>
     IN IF ~val.ok
        THEN Raise("IndexError") /\ UNCHANGED <<data, views>>
        ELSE on_change(t, val.v, rest)
  /\ UNCHANGED <<build, rav, tlists, tl, tied_to_me, fixed, lastOp, fired, notified,
                 hist, count>>

\* Param._fire_changed: the dict is exhausted
FireReturn ==
  /\ stack # <<>> /\ Top.f = "fire" /\ Top.todo = {}
  /\ stack' = Pop
  /\ UNCHANGED <<build, rav, data, views, tlists, tl, tied_to_me, fixed, err, lastOp,
                 fired, notified, hist, count>>

\* Param._on_change line 263: self._fire_changed()
OnChangeFire ==
  /\ stack # <<>> /\ Top.f = "on_change"
  /\ stack' = Pop \o <<Frame("fire", Top.obj,
                             DOMAIN tied_to_me[parent_index(Top.obj)], "")>>
  /\ fired' = fired \cup {Top.obj}
  /\ UNCHANGED <<build, rav, data, views, tlists, tl, tied_to_me, fixed, err, lastOp,
                 notified, hist, count>>

\* _remove_tie_listener (lines 251-256) on t: every key of t's dict that has
\* t's own _parent_index_ keeps the offsets that are also the key's raveled
\* offsets, and goes when none is left; the argument to_remove is not read.
\* A key whose _raveled_index raises ends the loop: `done` are the keys the
\* dict yielded before it.
remove_tie_listener(d, t, done) ==
  LET dd == d[parent_index(t)]
      K == {k \in DOMAIN dd : parent_index(k) = parent_index(t)}
      bad == {k \in K : ~raveled(k).ok}
      proc == IF bad = {} THEN K ELSE K \cap done
      kept(k) == IF k \in proc THEN dd[k] \cap Range(raveled(k).v) ELSE dd[k]
      alive == {k \in DOMAIN dd : kept(k) # {} \/ k \notin proc}
  IN [ok |-> bad = {},
      d |-> [d EXCEPT ![parent_index(t)] = [k \in alive |-> kept(k)]]]

\* line 239: _remove_tie_listener on every Param of self._tied_to_, in order
RECURSIVE remove_all(_, _, _)
remove_all(d, lst, done) ==
  IF lst = <<>> THEN [ok |-> TRUE, d |-> d]
  ELSE LET r == remove_tie_listener(d, Head(lst), done)
       IN IF ~r.ok THEN r ELSE remove_all(r.d, Tail(lst), done)

\* Param.untie(T) (lines 235-244).  The filter of line 243 calls set_index
\* with one argument where it takes two: a TypeError as soon as a Param of
\* the list has T's _parent_index_.  Otherwise self._tied_to_ is bound to a
\* new empty list and the owner unfixes self.
Untie(A, T, done) ==
  /\ stack = <<>>
  /\ count.unties < MaxUnties /\ count.calls < MaxCalls
  /\ count' = [count EXCEPT !.unties = @ + 1, !.calls = @ + 1]
  /\ lastOp' = Op("untie", A, T) /\ fired' = {} /\ notified' = FALSE
  /\ LET lst == tlists[tied_list(A)]
         r == remove_all(tied_to_me, lst, done)
         clash == \E j \in 1..Len(lst) : parent_index(lst[j]) = parent_index(T)
         fresh == FreshLists[count.unties + 1]
     IN /\ (r.ok => done = {})
        /\ tied_to_me' = r.d
        /\ IF ~r.ok
           THEN err' = "IndexError" /\ UNCHANGED <<tlists, tl, views, fixed>>
           ELSE IF clash
           THEN err' = "TypeError" /\ UNCHANGED <<tlists, tl, views, fixed>>
           ELSE /\ tlists' = tlists @@ (fresh :> <<>>)
                /\ IF IsOrig(A)
                   THEN tl' = [tl EXCEPT ![A] = fresh] /\ UNCHANGED views
                   ELSE views' = [views EXCEPT ![A].tl = fresh] /\ UNCHANGED tl
                /\ IF ~raveled(A).ok
                   THEN err' = raveled(A).err /\ UNCHANGED fixed
                   ELSE err' = "none" /\ fixed' = set_unfixed(A)
  /\ hist' = IF <<A, T>> \in hist.tied
             THEN [tied |-> hist.tied \ {<<A, T>>}, untied |-> hist.untied \cup {<<A, T>>}]
             ELSE hist
  /\ UNCHANGED <<build, rav, data, stack>>

TieFrame == UNCHANGED <<idxVars, catVars>>

Next ==
  \/ \E o \in Origs : \E e \in ViewExprs(o) : GetItem(o, e) /\ TieFrame
  \/ \E A \in Objs : \E B \in Objs \cup {NotAParam} : TieTo(A, B) /\ TieFrame
  \/ TieRegister /\ TieFrame
  \/ \E x \in Objs : \E e \in AssignExprs(x) : \E v \in Vals :
       Assign(x, e, v) /\ TieFrame
  \/ \E x \in Objs : \E v \in Vals : SetParams(x, v) /\ TieFrame
  \/ \E x \in Objs : \E v \in Vals : CatPlace(x, v) /\ TieFrame
  \/ \E A \in Objs : \E T \in Objs : \E done \in SUBSET Objs :
       Untie(A, T, done) /\ TieFrame
  \/ SetitemFire /\ TieFrame
  \/ SetitemNotify /\ TieFrame
  \/ \E t \in Objs : FireNext(t) /\ TieFrame
  \/ FireReturn /\ TieFrame
  \/ OnChangeFire /\ TieFrame

Init == TieInit /\ IdxIdle /\ CatIdle
Spec == Init /\ [][Next]_vars

(***************************************************************************)
(* Properties of Spec.                                                     *)
(***************************************************************************)
\* a call from outside has returned without an exception
Returned(op) == stack = <<>> /\ err = "none" /\ lastOp.op = op

\* C1: once A.tie_to(B) has succeeded, every assignment to B that has
\* returned leaves the elements A denotes in the backing buffer equal to B's
\* values, whatever kind of object A and B are
C1_TiedFollowsSource ==
  Returned("assign") =>
     \A pr \in hist.tied :
        pr[2] = lastOp.obj => all_eq(backing_values(pr[1]), own_values(pr[2]))

\* C2: after A.tie_to(B) and then A.untie(B), untie has returned normally and
\* A is no key of B's _tied_to_me_, and an assignment to B that has returned
\* leaves the buffer of A's Param as it was before the assignment
C2_UntieRemovesListener ==
  /\ (stack = <<>> /\ lastOp.op = "untie" /\ <<lastOp.obj, lastOp.arg>> \in hist.untied)
       => /\ err = "none"
          /\ lastOp.obj \notin DOMAIN tied_to_me[parent_index(lastOp.arg)]
  /\ Returned("assign") =>
       \A pr \in hist.untied :
          (pr[2] = lastOp.obj /\ parent_index(pr[1]) # parent_index(pr[2]))
             => data[parent_index(pr[1])] = lastOp.arg[parent_index(pr[1])]

\* C4: a call that changes the values of a Param, an assignment or
\* _set_params, has run _fire_changed on the written Param and
\* owner.parameters_changed by the time it returns
C4_WritesFireAndNotify ==
  (Returned("assign") \/ Returned("_set_params")) =>
     (lastOp.obj \in fired /\ notified)

\* C7: a step that ends tie_to in an exception does so because the argument
\* is no Param or because its shape does not broadcast to self's, and it
\* leaves the values, the _tied_to_ lists, the _tied_to_me_ dicts and the
\* fixed offsets as they were
C7_TieErrorsLeaveStateUnchanged ==
  [][(lastOp'.op = "tie_to" /\ err' # "none") =>
        /\ \/ (err' = "AssertionError" /\ lastOp'.arg = NotAParam)
           \/ (/\ err' = "ValueError" /\ lastOp'.arg # NotAParam
               /\ ~can_assign(size(lastOp'.arg), size(lastOp'.obj),
                              zero_d(lastOp'.obj)))
        /\ UNCHANGED <<data, views, tlists, tied_to_me, fixed>>]_vars

\* C8: a call of _on_change on a Param whose elements in the backing buffer
\* already equal val[ind] returns at once: it writes nothing and opens no
\* frame that would run _fire_changed or notify the owner
C8_OnChangeIdempotent ==
  [][\A t \in Objs :
        (/\ FireNext(t)
         /\ LET val == take(base_values(Top.obj),
                            SortedSeq(tied_to_me[parent_index(Top.obj)][t]))
            IN val.ok /\ all_eq(backing_values(t), val.v))
        => (Len(stack') = Len(stack) /\ UNCHANGED <<data, views>>)]_vars

\* C10 as the specification words it: after A.tie_to(B) has succeeded, B's
\* _tied_to_me_ maps A to exactly A's own raveled offsets
C10_ListenerHoldsOwnOffsets ==
  [][(stack # <<>> /\ Top.f = "tie_to" /\ err' = "none") =>
        tied_to_me'[parent_index(Top.param)][Top.obj] = Range(raveled(Top.obj).v)]_vars

\* C10: after A.tie_to(B) has succeeded, B's _tied_to_me_ maps A to the
\* offsets it held for A before together with B's raveled offsets, B is the
\* last entry of the _tied_to_ list of A's original, and the owner holds A's
\* offsets fixed
C10_ListenerHoldsSourceOffsets ==
  [][(stack # <<>> /\ Top.f = "tie_to" /\ err' = "none") =>
        LET A == Top.obj
            B == Top.param
            d == tied_to_me[parent_index(B)]
            old == IF A \in DOMAIN d THEN d[A] ELSE {}
            l == tl[get_original(A)]
        IN /\ tied_to_me'[parent_index(B)][A] = old \cup Range(raveled(B).v)
           /\ tlists'[l] = Append(tlists[l], B)
           /\ Range(raveled(A).v) \subseteq fixed'[parent_index(A)]]_vars

\* a tie_to that has succeeded between a Param of two elements and a Param
\* of one, whose raveled offsets differ
C10_Witness ==
  /\ Returned("tie_to")
  /\ lastOp.arg # NotAParam
  /\ raveled(lastOp.obj).v # raveled(lastOp.arg).v
  /\ lastOp.obj \in DOMAIN tied_to_me[parent_index(lastOp.arg)]
  /\ lastOp.arg \in Range(tlists[tl[get_original(lastOp.obj)]])

\* the elements x denotes in the backing buffer after the step
backing_values_next(x) ==
  [j \in 1..size(x) |-> data'[parent_index(x)][denotes(x)[j] + 1]]

\* C12: the value write of tie_to and of _on_change on a Param that is not
\* marked original goes to the original at the Param's _current_slice_ and
\* leaves the Param's own buffer as it was, and no step writes the buffer of
\* a copy without writing the same values to the original
C12_WritesGoThroughOriginal ==
  [][/\ \A A \in DOMAIN views : \A B \in Objs :
          (TieTo(A, B) /\ is_copy(A) /\ err' = "none")
             => /\ views'[A].buf = views[A].buf
                /\ all_eq(backing_values_next(A), own_values(B))
     /\ \A t \in DOMAIN views :
          (FireNext(t) /\ is_copy(t) /\ Len(stack') > Len(stack))
             => views'[t].buf = views[t].buf
     /\ \A x \in DOMAIN views :
          (is_copy(x) /\ views'[x].buf # views[x].buf)
             => backing_values_next(x) = views'[x].buf]_vars

\* the ties that close a cycle: x is tied to another Param y and y to x
cycle_ties == {pr \in hist.tied : pr[1] # pr[2] /\ <<pr[2], pr[1]>> \in hist.tied}
in_cycle(x) == \E pr \in cycle_ties : pr[1] = x

\* C13: an assignment to a member of a tie cycle ends, without an exception
\* and without the cascade growing to the depth bound, in a state where the
\* two Params of every tie of the cycle hold equal elements in the backing
\* buffers
C13_CycleCascadeSettles ==
  (lastOp.op = "assign" /\ in_cycle(lastOp.obj)) =>
     /\ Len(stack) < MaxDepth
     /\ stack = <<>> =>
          /\ err = "none"
          /\ \A pr \in cycle_ties :
                all_eq(backing_values(pr[1]), backing_values(pr[2]))

\* the listeners a frame of _fire_changed (lines 246-248) has not served yet
\* and whose values differ from val[ind], the values of the frame's Param at
\* the offsets the tie recorded
stale_listeners(fr) ==
  IF fr.f # "fire" THEN {}
  ELSE {t \in fr.todo :
          LET ind == SortedSeq(tied_to_me[parent_index(fr.obj)][t])
              val == take(base_values(fr.obj), ind)
          IN val.ok /\ ~on_change_equal(t, val.v)}

\* C14: within one assignment the owner's parameters_changed runs only after
\* the whole cascade: whenever the call of line 300 is the next step, no
\* _fire_changed of the assignment still has a listener to serve whose values
\* differ from its source at the tied offsets
C14_OwnerNotifiedAfterCascade ==
  (lastOp.op = "assign" /\ stack # <<>> /\ Top.f = "notify") =>
     \A j \in 1..Len(stack) : stale_listeners(stack[j]) = {}

(***************************************************************************)
(* SpecCat: a ParamConcatenation over one or two members (one-dimensional  *)
(* originals) and one call on it.                                          *)
(***************************************************************************)
\* transform.initialize(values) of the three transforms the wrappers bind:
\* Logexp gives positive values, NegativeLogexp negative ones, Logistic leaves
\* values inside its bounds as they are
initialize(transform, values) ==
  [j \in 1..Len(values) |->
     IF transform = "Logexp" THEN (IF values[j] < 0 THEN 0 - values[j] ELSE values[j])
     ELSE IF transform = "NegativeLogexp"
          THEN (IF values[j] < 0 THEN values[j] ELSE 0 - values[j])
     ELSE values[j]]

CatCall(op, s, val, transforms, warning, bnds) ==
  [op |-> op, s |-> s, val |-> val, transforms |-> transforms, warning |-> warning,
   bnds |-> bnds]

\* the call a member receives from the bulk operation `call` (lines 449-480),
\* its arguments as the member's own method binds them: constrain is passed
\* on without the warning flag, which Param.constrain then defaults to True
\* (line 148); unconstrain is passed on with its one argument, None when
\* the caller gave none
member_call(call) ==
  IF call.op = "constrain" THEN [call EXCEPT !.warning = TRUE]
  ELSE IF call.op = "unconstrain"
       THEN [call EXCEPT !.transforms =
               <<(IF call.transforms = <<>> THEN "None" ELSE call.transforms[1])>>]
  ELSE call

\* the transform a member's constrain call initializes its values with
\* (lines 157-160, 168, 175, 183); "" for a call that writes no value
bound_transform(call) ==
  IF call.op = "constrain" THEN call.transforms[1]
  ELSE IF call.op = "constrain_positive" THEN "Logexp"
  ELSE IF call.op = "constrain_negative" THEN "NegativeLogexp"
  ELSE IF call.op = "constrain_bounded" THEN "Logistic"
  ELSE ""

BulkOps == {"constrain", "constrain_positive", "constrain_negative", "constrain_bounded",
            "constrain_fixed", "unconstrain", "unconstrain_positive",
            "unconstrain_negative", "unconstrain_bounded", "unconstrain_fixed"}

\* the calls tried on a ParamConcatenation over params
CatCalls(params) ==
  LET n == SeqSum(param_sizes(params))
      slices == {Slice(<<lo>>, <<hi>>, None) : lo \in 0..(n - 1), hi \in 1..n}
      proper == {t \in slices : t.a[1] < t.b[1]}
      bnds == <<0, MaxVal>>
  IN {CatCall("__getitem__", s, 0, <<>>, TRUE, <<>>) : s \in proper}
     \cup {CatCall("__setitem__", s, v, <<>>, TRUE, <<>>) : s \in proper, v \in Vals}
     \cup {CatCall("constrain", FullSlice, 0, <<"Logexp">>, w, <<>>) : w \in BOOLEAN}
     \cup {CatCall(op, FullSlice, 0, <<>>, w, <<>>) :
             op \in {"constrain_positive", "constrain_negative", "constrain_fixed"},
             w \in BOOLEAN}
     \cup {CatCall("constrain_bounded", FullSlice, 0, <<>>, w, bnds) : w \in BOOLEAN}
     \cup {CatCall("unconstrain", FullSlice, 0, t, TRUE, <<>>) : t \in {<<>>, <<"Logexp">>}}
     \cup {CatCall(op, FullSlice, 0, <<>>, TRUE, <<>>) :
             op \in {"unconstrain_positive", "unconstrain_negative", "unconstrain_fixed"}}
     \cup {CatCall("unconstrain_bounded", FullSlice, 0, <<>>, TRUE, bnds)}

MemberVals == UNION {[1..k -> Vals] : k \in 1..MaxMember}

CatInit ==
  /\ cparams \in UNION {[1..n -> MemberVals] : n \in 1..2}
  /\ cold = cparams
  /\ ccall \in CatCalls(cparams)
  /\ cres = [wrapped |-> FALSE, items |-> <<>>]
  /\ clog = <<>>
  /\ cphase = "drawn"
  /\ TieIdle /\ IdxIdle

CatGetItem ==
  /\ cphase = "drawn" /\ ccall.op = "__getitem__"
  /\ cres' = cat_getitem(cparams, ccall.s)
  /\ cphase' = "done"
  /\ UNCHANGED <<cparams, cold, ccall, clog>>

CatSetItem ==
  /\ cphase = "drawn" /\ ccall.op = "__setitem__"
  /\ cparams' = cat_setitem(cparams, ccall.s, ccall.val)
  /\ cphase' = "done"
  /\ UNCHANGED <<cold, ccall, cres, clog>>

\* a bulk operation (lines 449-480): every member, in order, receives its
\* call and, for a constrain call, takes the transform's initial values
CatBulk ==
  /\ cphase = "drawn" /\ ccall.op \in BulkOps
  /\ clog' = [i \in 1..Len(cparams) |-> [member |-> i, call |-> member_call(ccall)]]
  /\ cparams' = IF bound_transform(ccall) = "" THEN cparams
                ELSE [i \in 1..Len(cparams) |->
                        initialize(bound_transform(ccall), cparams[i])]
  /\ cphase' = "done"
  /\ UNCHANGED <<cold, ccall, cres>>

CatFrame == UNCHANGED <<idxVars, tieVars>>

CatNext ==
  \/ CatGetItem /\ CatFrame
  \/ CatSetItem /\ CatFrame
  \/ CatBulk /\ CatFrame
SpecCat == CatInit /\ [][CatNext]_vars

(***************************************************************************)
(* Properties of SpecCat.                                                  *)
(***************************************************************************)
\* whether s selects position j of member i (j counted from 1)
selected(i, j) == cat_ind(cold, ccall.s)[param_slices(cold)[i][1] + j]

\* C5: after view[s] = x every selected position holds x, every other
\* position holds its value from before the call, and no member changes size
C5_SetScattersBack ==
  (cphase = "done" /\ ccall.op = "__setitem__") =>
     \A i \in 1..Len(cold) :
        /\ Len(cparams[i]) = Len(cold[i])
        /\ \A j \in 1..Len(cold[i]) :
              cparams[i][j] = IF selected(i, j) THEN ccall.val ELSE cold[i][j]

\* C6: view[s] returns, in member order, the selected values of every member
\* that has a selected element, whatever the values; with exactly one such
\* member the selection is returned as it is
C6_GetReturnsEverySelectedMember ==
  (cphase = "done" /\ ccall.op = "__getitem__") =>
     LET hit == {i \in 1..Len(cold) : \E j \in 1..Len(cold[i]) : selected(i, j)}
         sel(i) == masked(cold[i], [j \in 1..Len(cold[i]) |-> selected(i, j)])
         RECURSIVE expected(_)
         expected(i) ==
           IF i > Len(cold) THEN <<>>
           ELSE (IF i \in hit THEN <<sel(i)>> ELSE <<>>) \o expected(i + 1)
     IN /\ cres.items = expected(1)
        /\ Cardinality(hit) = 1 => ~cres.wrapped

\* C9: a bulk operation reaches every member once, in member order, as the
\* operation of the same name with the arguments the caller gave
C9_BulkFansOutIdentically ==
  (cphase = "done" /\ ccall.op \in BulkOps) =>
     clog = [i \in 1..Len(cold) |-> [member |-> i, call |-> ccall]]

====
